---- MODULE Spec2Model ----
(***************************************************************************)
(* College Resource Hub: the resource, rating, favourite, tag, download    *)
(* and statistics request handlers of server/routes.ts over the storage    *)
(* layer of server/storage.ts and the tables of shared/schema.ts.          *)
(*                                                                         *)
(* A request handler is a sequence of database statements; every statement *)
(* is atomic, and handlers of different requests interleave between their  *)
(* statements (each `await`).  A handler slot of `procs` holds the locals  *)
(* of one request in flight and, once it has answered, its response.       *)
(*                                                                         *)
(* Representation.  Ids of users and resources are positive integers (a    *)
(* fresh gen_random_uuid() is the next unused number); 0 stands for "no    *)
(* value".  A decimal(3,2) column is held in hundredths (450 is 4.50).     *)
(* Timestamps are readings of the logical clock `now`.                     *)
(***************************************************************************)
EXTENDS Integers, Sequences, FiniteSets, TLC

VARIABLES resources, ratings, favorites, tags, resourceTags, procs, now,
          incrementCalls

vars == <<resources, ratings, favorites, tags, resourceTags, procs, now,
          incrementCalls>>

(* ------------------------------ bounds -------------------------------- *)
NumUsers == 3
MaxResources == 1
MaxInFlight == 2
MaxClock == 1
MaxDownloads == 3

(* ------------------------- program constants -------------------------- *)
\* getResources: limit = 50 unless the request names one
DefaultLimit == 50
\* ratings.rating is documented as "1-5 stars"
MinStars == 1
MaxStars == 5
\* decimal(3,2): two digits after the point, held here in hundredths
Scale == 100
\* decimal(3,2): the stored value must round to an absolute value below 10^1
DecimalLimit == 1000

Users == 1..NumUsers
Procs == 1..MaxInFlight
Stars == MinStars..MaxStars

\* review of a request body: left out (undefined), null, or a text
Absent == "<undefined>"
Null == "<null>"

(* ------------------------------ tables -------------------------------- *)
\* a freshly inserted resources row: the column defaults of the table
NewResource(id, data, t) ==
  [id |-> id, title |-> data.title, description |-> data.description,
   subject |-> data.subject, semester |-> data.semester, file |-> data.file,
   uploadedById |-> data.uploadedById, downloadCount |-> 0,
   averageRating |-> 0, ratingCount |-> 0, isActive |-> TRUE,
   createdAt |-> t, updatedAt |-> t]

\* Mutant of getResource: soft-deleted rows are not found.
getActiveResource(id) ==
  {resources[i] : i \in {j \in DOMAIN resources : resources[j].id = id /\ resources[j].isActive}}

\* db.select().from(resources).where(eq(resources.id, id))
getResource(id) == {resources[i] : i \in {j \in DOMAIN resources : resources[j].id = id}}

\* the rows of ratings of one resource
RowsFor(rows, id) == {r \in rows : r.resourceId = id}

RECURSIVE SumRatings(_)
SumRatings(rows) ==
  IF rows = {} THEN 0
  ELSE LET r == CHOOSE x \in rows : TRUE IN r.rating + SumRatings(rows \ {r})

\* SELECT AVG(rating), COUNT(rating) FROM ratings WHERE resource_id = id:
\* the average is the exact quotient sum/count (NULL when count = 0)
SelectStats(rows, id) ==
  [sum |-> SumRatings(RowsFor(rows, id)), count |-> Cardinality(RowsFor(rows, id))]

\* Mutant of ToDecimal: the quotient cut off after two decimals, not rounded.
ToDecimalTruncated(stats) ==
  IF stats.count = 0 THEN 0 ELSE (Scale * stats.sum) \div stats.count

\* stats.avgRating ? stats.avgRating.toString() : "0", as the decimal(3,2)
\* column takes it: rounded to two decimals, half away from zero
ToDecimal(stats) ==
  IF stats.count = 0 THEN 0
  ELSE (2 * Scale * stats.sum + stats.count) \div (2 * stats.count)

\* "numeric field overflow": the value does not fit decimal(3,2)
NumericOverflow(v) == v >= DecimalLimit

\* Mutant of SetRatingStats: the UPDATE without its WHERE clause.
SetRatingStatsEveryRow(res, id, stats, t) ==
  [i \in DOMAIN res |->
     [res[i] EXCEPT !.averageRating = ToDecimal(stats),
                    !.ratingCount = stats.count,
                    !.updatedAt = t]]

\* UPDATE resources SET average_rating, rating_count, updated_at WHERE id = id
SetRatingStats(res, id, stats, t) ==
  [i \in DOMAIN res |->
     IF res[i].id = id
     THEN [res[i] EXCEPT !.averageRating = ToDecimal(stats),
                         !.ratingCount = stats.count,
                         !.updatedAt = t]
     ELSE res[i]]

\* Mutant of RatingData: the body spread last, so its ids win.
RatingDataBodyLast(body, id, userId) ==
  [rating |-> body.rating, review |-> body.review,
   resourceId |-> IF body.resourceId = 0 THEN id ELSE body.resourceId,
   userId |-> IF body.userId = 0 THEN userId ELSE body.userId]

\* { ...req.body, resourceId: id, userId }: the path id and the session
\* user override whatever the body carries
RatingData(body, id, userId) ==
  [rating |-> body.rating, review |-> body.review, resourceId |-> id, userId |-> userId]

\* insertRatingSchema.parse: rating is a required number (no range is
\* checked), review optional
ParseOk(data) == Len(data.rating) = 1

\* INSERT ... ON CONFLICT (resource_id, user_id) DO UPDATE SET rating, review:
\* an undefined value is left out of a SET list, so a review that the
\* request leaves out keeps the stored one; on insert it becomes NULL
Upsert(rows, data) ==
  LET old == {r \in rows : r.resourceId = data.resourceId /\ r.userId = data.userId}
  IN IF old = {}
     THEN rows \cup {[resourceId |-> data.resourceId, userId |-> data.userId,
                      rating |-> data.rating[1],
                      review |-> IF data.review = Absent THEN Null ELSE data.review]}
     ELSE (rows \ old) \cup
          {[r EXCEPT !.rating = data.rating[1],
                     !.review = IF data.review = Absent THEN @ ELSE data.review] : r \in old}

\* Mutant of ResourceData: an uploadedById of the body wins over the session.
ResourceDataFromBody(body, file, userId) ==
  [title |-> body.title,
   description |-> IF body.description \in {Absent, ""} THEN Null ELSE body.description,
   subject |-> body.subject,
   semester |-> IF body.semester \in {Absent, ""} THEN Null ELSE body.semester,
   file |-> file,
   uploadedById |-> IF body.uploadedById = 0 THEN userId ELSE body.uploadedById]

\* POST /api/resources: the object handed to insertResourceSchema.parse; the
\* four text fields come from the body, the file columns (here one value)
\* from the stored upload and uploadedById from the session
ResourceData(body, file, userId) ==
  [title |-> body.title,
   description |-> IF body.description \in {Absent, ""} THEN Null ELSE body.description,
   subject |-> body.subject,
   semester |-> IF body.semester \in {Absent, ""} THEN Null ELSE body.semester,
   file |-> file, uploadedById |-> userId]

\* insertResourceSchema.parse: title and subject are required strings
ResourceParseOk(data) == data.title # Absent /\ data.subject # Absent

\* the fields of a multipart upload: texts, a JSON list of tag names, and
\* an uploadedById the handler never reads
Uploads(titles, descriptions, subjects, semesters, uploaders, tagLists) ==
  [title : titles, description : descriptions, subject : subjects,
   semester : semesters, uploadedById : uploaders, tags : tagLists]

\* Mutant of UniqueViolated: tags.name without its unique constraint.
NeverViolated(rows, name) == FALSE

\* tags.name is unique: an INSERT of a name that is there is refused
UniqueViolated(rows, name) == \E i \in DOMAIN rows : rows[i] = name

\* db.select().from(tags).where(eq(tags.name, name)): the ids with that name
getTagByName(name) == {i \in DOMAIN tags : tags[i] = name}

\* Mutant of InsertOnConflictDoNothing: the row is added whatever is there.
InsertAlways(rows, row) == Append(rows, row)

\* INSERT ... ON CONFLICT DO NOTHING into a table whose primary key is all
\* the columns kept here: a row that is there already is not added again
InsertOnConflictDoNothing(rows, row) ==
  IF \E i \in DOMAIN rows : rows[i] = row THEN rows ELSE Append(rows, row)

\* storage.addTagToResource: INSERT INTO resource_tags ... ON CONFLICT DO
\* NOTHING
addTagToResource(rows, resourceId, tagId) ==
  InsertOnConflictDoNothing(rows, [resourceId |-> resourceId, tagId |-> tagId])

\* storage.addFavorite: INSERT INTO favorites ... ON CONFLICT DO NOTHING
addFavorite(rows, userId, resourceId) ==
  InsertOnConflictDoNothing(rows, [userId |-> userId, resourceId |-> resourceId])

\* Mutant of IsOwner: every signed-in caller passes.
IsAnyCaller(row, userId) == TRUE

\* existingResource.uploadedById !== userId fails: the caller is the uploader
IsOwner(row, userId) == row.uploadedById = userId

\* Mutant of Updates: the whole request body handed to updateResource.
UpdatesWholeBody(body) == body

\* PUT /api/resources/:id: const updates = { title, description, subject,
\* semester } of req.body; no other key of the body is read
Updates(body) ==
  [title |-> body.title, description |-> body.description,
   subject |-> body.subject, semester |-> body.semester,
   uploadedById |-> 0, downloadCount |-> <<>>, isActive |-> <<>>]

\* the JSON bodies of an update: each column left out, null or a value;
\* uploadedById 0, downloadCount <<>> and isActive <<>> are left out
UpdateBodies(titles, descriptions, subjects, semesters, uploaders, counts, flags) ==
  [title : titles, description : descriptions, subject : subjects,
   semester : semesters, uploadedById : uploaders, downloadCount : counts,
   isActive : flags]

\* title and subject are NOT NULL columns
NotNullViolated(updates) == updates.title = Null \/ updates.subject = Null

\* .set({ ...updates, updatedAt: new Date() }) on one row: a key whose
\* value is undefined is left out of the SET list
SetColumns(row, updates, t) ==
  [row EXCEPT
     !.title = IF updates.title = Absent THEN @ ELSE updates.title,
     !.description = IF updates.description = Absent THEN @ ELSE updates.description,
     !.subject = IF updates.subject = Absent THEN @ ELSE updates.subject,
     !.semester = IF updates.semester = Absent THEN @ ELSE updates.semester,
     !.uploadedById = IF updates.uploadedById = 0 THEN @ ELSE updates.uploadedById,
     !.downloadCount = IF updates.downloadCount = <<>> THEN @ ELSE updates.downloadCount[1],
     !.isActive = IF updates.isActive = <<>> THEN @ ELSE updates.isActive[1],
     !.updatedAt = t]

\* storage.updateResource: UPDATE resources SET ... WHERE id = id
updateResource(res, id, updates, t) ==
  [i \in DOMAIN res |->
     IF res[i].id = id THEN SetColumns(res[i], updates, t) ELSE res[i]]

\* Mutant of deleteResource: re-deleting toggles the flag.
deleteResourceToggle(res, id, t) ==
  [i \in DOMAIN res |->
     IF res[i].id = id
     THEN [res[i] EXCEPT !.isActive = ~@, !.updatedAt = t]
     ELSE res[i]]

\* storage.deleteResource: UPDATE resources SET is_active = false,
\* updated_at = now WHERE id = id
deleteResource(res, id, t) ==
  [i \in DOMAIN res |->
     IF res[i].id = id
     THEN [res[i] EXCEPT !.isActive = FALSE, !.updatedAt = t]
     ELSE res[i]]

\* Mutant of Active: soft-deleted rows pass as well.
ActiveOrNot(row) == TRUE

\* eq(resources.isActive, true)
Active(row) == row.isActive

\* getResources without options: limit 50, offset 0, sortBy 'newest'; a
\* filter that is undefined, empty or 0 is falsy and adds no condition
NoOptions ==
  [subject |-> Absent, semester |-> Absent, minRating |-> 0, userId |-> 0,
   sortBy |-> "newest", limit |-> DefaultLimit, offset |-> 0]

Options(subjects, semesters, minRatings, userIds, sortBys) ==
  [subject : subjects, semester : semesters, minRating : minRatings,
   userId : userIds, sortBy : sortBys, limit : {DefaultLimit}, offset : {0}]

\* the WHERE clause of getResources: and(...conditions); the queries of
\* the model carry no search text, so the ILIKE condition is never pushed
Matches(row, o) ==
  /\ Active(row)
  /\ o.subject \notin {Absent, ""} => row.subject = o.subject
  /\ o.semester \notin {Absent, ""} => row.semester = o.semester
  /\ o.minRating # 0 => row.averageRating >= o.minRating
  /\ o.userId # 0 => row.uploadedById = o.userId

\* the ORDER BY of getResources, as a key to sort ascending: one column,
\* and any sortBy other than oldest, rating, downloads is 'newest'
SortKey(row, sortBy) ==
  CASE sortBy = "oldest" -> row.createdAt
    [] sortBy = "rating" -> 0 - row.averageRating
    [] sortBy = "downloads" -> 0 - row.downloadCount
    [] OTHER -> 0 - row.createdAt

\* every order in which a SELECT may hand out these rows
Orders(S) ==
  {s \in [1..Cardinality(S) -> S] :
     \A i, j \in 1..Cardinality(S) : i # j => s[i] # s[j]}

\* .limit(limit).offset(offset)
Page(s, limit, offset) ==
  SubSeq(s, offset + 1, IF offset + limit < Len(s) THEN offset + limit ELSE Len(s))

\* storage.getResources: the ids of the matching rows in every order the
\* one-column ORDER BY allows (rows with equal keys come in any order)
getResources(res, o) ==
  {[k \in DOMAIN Page(s, o.limit, o.offset) |-> res[Page(s, o.limit, o.offset)[k]].id] :
     s \in {t \in Orders({i \in DOMAIN res : Matches(res[i], o)}) :
              \A k \in 1..(Len(t) - 1) :
                SortKey(res[t[k]], o.sortBy) <= SortKey(res[t[k + 1]], o.sortBy)}}

\* storage.getUserFavorites: favorites INNER JOIN resources WHERE user_id =
\* userId AND is_active: the ids of the rows
getUserFavorites(res, favs, userId) ==
  {favs[k].resourceId : k \in {j \in DOMAIN favs :
      /\ favs[j].userId = userId
      /\ \E i \in DOMAIN res : res[i].id = favs[j].resourceId /\ Active(res[i])}}

\* DELETE FROM favorites WHERE user_id = userId AND resource_id = resourceId
FavoriteTargets(favs, userId, resourceId) ==
  {i \in DOMAIN favs : favs[i].userId = userId /\ favs[i].resourceId = resourceId}

\* DELETE FROM resource_tags WHERE resource_id = resourceId AND tag_id = tagId
TagTargets(rows, resourceId, tagId) ==
  {i \in DOMAIN rows : rows[i].resourceId = resourceId /\ rows[i].tagId = tagId}

\* the table without the rows a DELETE matched
RECURSIVE Remaining(_, _)
Remaining(rows, gone) ==
  IF rows = <<>> THEN <<>>
  ELSE LET n == Len(rows)
           rest == Remaining(SubSeq(rows, 1, n - 1), gone)
       IN IF n \in gone THEN rest ELSE Append(rest, rows[n])

\* A value of an aggregate as the driver hands it to the program.  The
\* sql<number> templates declare a type and convert nothing: COUNT and SUM
\* are bigint and AVG is numeric, which node-postgres delivers as text; an
\* aggregate over no rows is null.  The value is the quotient num/den.
SqlNull == [kind |-> "null", num |-> 0, den |-> 1]
Text(num, den) == [kind |-> "text", num |-> num, den |-> den]
Number(num, den) == [kind |-> "number", num |-> num, den |-> den]

RECURSIVE SumOf(_, _)
SumOf(rows, column) ==
  IF rows = {} THEN 0
  ELSE LET r == CHOOSE x \in rows : TRUE IN r[column] + SumOf(rows \ {r}, column)

\* COUNT(*), SUM(column), AVG(column) over a set of rows
SqlCount(rows) == Text(Cardinality(rows), 1)
SqlSum(rows, column) == IF rows = {} THEN SqlNull ELSE Text(SumOf(rows, column), 1)
SqlAvg(rows, column) ==
  IF rows = {} THEN SqlNull ELSE Text(SumOf(rows, column), Cardinality(rows))

\* COALESCE(value, 0) inside the statement: still a bigint or numeric
Coalesce(v) == IF v.kind = "null" THEN Text(0, 1) ELSE v

\* Mutant of OrZero: the value handed on as it came.
OrNothing(v) == v

\* value || 0: null, the number 0 and the empty text are falsy; a text
\* such as "0" is not
OrZero(v) ==
  IF v.kind = "null" \/ (v.kind = "number" /\ v.num = 0) THEN Number(0, 1) ELSE v

\* the rows of resources that are active, of everybody or of one uploader
ActiveRows(res) == {res[i] : i \in {j \in DOMAIN res : Active(res[j])}}
ActiveRowsOf(res, userId) == {r \in ActiveRows(res) : r.uploadedById = userId}

\* getDashboardStats, first SELECT: COUNT(*), SUM(download_count),
\* AVG(average_rating) of the active rows
SelectResourceStats(rows) ==
  [totalResources |-> SqlCount(rows),
   totalDownloads |-> SqlSum(rows, "downloadCount"),
   averageRating |-> SqlAvg(rows, "averageRating"),
   activeUsers |-> SqlNull]

\* getDashboardStats, second SELECT: COUNT(DISTINCT uploaded_by_id)
SelectActiveUsers(rows) == SqlCount({r.uploadedById : r \in rows})

\* the object getDashboardStats and getUserStats return: each field || 0
StatsAnswer(t) ==
  [totalResources |-> OrZero(t.totalResources),
   totalDownloads |-> OrZero(t.totalDownloads),
   averageRating |-> OrZero(t.averageRating),
   activeUsers |-> OrZero(t.activeUsers)]

\* getTopContributors, one row of users LEFT JOIN resources ON uploaded_by_id
\* = users.id AND is_active GROUP BY users.id: COUNT(resources.id),
\* COALESCE(SUM(download_count), 0), COALESCE(AVG(average_rating), 0)
ContributorRow(res, u) ==
  [id |-> u,
   resourceCount |-> SqlCount(ActiveRowsOf(res, u)),
   totalDownloads |-> Coalesce(SqlSum(ActiveRowsOf(res, u), "downloadCount")),
   averageRating |-> Coalesce(SqlAvg(ActiveRowsOf(res, u), "averageRating"))]

\* the quotient a is greater than the quotient b
Greater(a, b) == a.num * b.den > b.num * a.den

\* ORDER BY COUNT DESC, COALESCE(SUM) DESC, COALESCE(AVG) DESC puts a
\* before b
RanksBefore(a, b) ==
  \/ Greater(a.resourceCount, b.resourceCount)
  \/ /\ ~Greater(b.resourceCount, a.resourceCount)
     /\ \/ Greater(a.totalDownloads, b.totalDownloads)
        \/ /\ ~Greater(b.totalDownloads, a.totalDownloads)
           /\ Greater(a.averageRating, b.averageRating)

\* contributor.resourceCount > 0 (a numeral is compared by its value)
Contributed(row) == row.resourceCount.num > 0

\* Number.prototype.toFixed: a text has no such method, the call throws
HasToFixed(v) == v.kind = "number"

\* Number(v.toFixed(2)) of a rating held in hundredths
ToFixed(v) == Number((2 * v.num + v.den) \div (2 * v.den), 1)

\* the .filter(...).map(...) of getTopContributors over the rows in one
\* order; the TypeError of a toFixed on a text is caught and [] returned
ContributorsAnswer(rows) ==
  LET kept == SelectSeq(rows, Contributed) IN
  IF \E k \in DOMAIN kept : ~HasToFixed(OrZero(kept[k].averageRating))
  THEN <<>>
  ELSE [k \in DOMAIN kept |->
          [id |-> kept[k].id,
           resourceCount |-> OrZero(kept[k].resourceCount),
           totalDownloads |-> OrZero(kept[k].totalDownloads),
           averageRating |-> ToFixed(OrZero(kept[k].averageRating))]]

\* storage.getTopContributors: the answers for every order of the grouped
\* rows that the ORDER BY allows
getTopContributors(res) ==
  {ContributorsAnswer([k \in DOMAIN s |-> ContributorRow(res, s[k])]) :
     s \in {t \in Orders(Users) :
              \A j, k \in DOMAIN t :
                j < k => ~RanksBefore(ContributorRow(res, t[k]), ContributorRow(res, t[j]))}}

\* the windows of getTrendingResources, in days, and the rows it asks for
Week == 7
Month == 30
TrendingLimit == 10

\* the highest trendingScore: Math.min(100, ...)
ScoreCap == 100

\* dateFilter: the window back from now; new Date(0) for 'all' and for any
\* other value; a timeframe left out is 'week'
DateFilter(timeframe, t) ==
  CASE timeframe \in {"week", Absent} -> t - Week
    [] timeframe = "month" -> t - Month
    [] OTHER -> 0

\* download_count * 0.4 + CAST(average_rating AS DECIMAL) * rating_count *
\* 0.6 as the ORDER BY computes it, in exact numerics: in thousandths
RawScore(row) == 400 * row.downloadCount + 6 * row.averageRating * row.ratingCount

\* downloadCount * 0.4 + parseFloat(averageRating) * ratingCount * 0.6 in
\* JavaScript is a sum of doubles: 0.6 as a double lies below 0.6, and for
\* these downloadCount and averageRating * ratingCount (in hundredths) the
\* sum comes out one unit in the last place below the whole number that
\* the exact value is (0.4 + 3.5999999999999996 = 3.9999999999999996).
\* The table is complete for downloadCount < 300 and ratingCount < 8.
FallsShort(row) ==
  <<row.downloadCount, row.averageRating * row.ratingCount>> \in
    {<<1, 6 * Scale>>, <<2, 12 * Scale>>, <<4, 24 * Scale>>}

\* Math.floor of that sum
Floor(row) ==
  IF RawScore(row) % 1000 = 0 /\ FallsShort(row)
  THEN RawScore(row) \div 1000 - 1
  ELSE RawScore(row) \div 1000

\* trendingScore: Math.min(100, Math.floor(...))
TrendingScore(row) == IF Floor(row) > ScoreCap THEN ScoreCap ELSE Floor(row)

\* storage.getTrendingResources: the active rows created since dateFilter
\* (the join with users drops none: uploadedById references users.id), in
\* every order the ORDER BY allows, the first ten, each with its score
getTrendingResources(res, timeframe, t) ==
  {[k \in DOMAIN Page(s, TrendingLimit, 0) |->
      [id |-> res[s[k]].id, trendingScore |-> TrendingScore(res[s[k]])]] :
     s \in {u \in Orders({i \in DOMAIN res :
                             Active(res[i]) /\ res[i].createdAt >= DateFilter(timeframe, t)}) :
              \A k \in 1..(Len(u) - 1) : RawScore(res[u[k]]) >= RawScore(res[u[k + 1]])}}

\* DELETE FROM ratings WHERE resource_id = id AND user_id = userId
DeleteTargets(rows, id, userId) ==
  {r \in rows : r.resourceId = id /\ r.userId = userId}

\* Mutant of IncrementTargets: the UPDATE without its WHERE clause.
IncrementEveryRow(res, id) == DOMAIN res

\* the rows the download UPDATE ... WHERE id = id touches
IncrementTargets(res, id) == {i \in DOMAIN res : res[i].id = id}

\* Mutant of NewDownloadCount: read-modify-write from the row read earlier.
NewDownloadCountFromRead(row, seen) == seen + 1

\* downloadCount: sql`download_count + 1`, evaluated on the row being updated
NewDownloadCount(row, seen) == row.downloadCount + 1

(* --------------------------- handler slots ---------------------------- *)
NoStats == [sum |-> 0, count |-> 0]

\* no aggregates read yet
NoTotals ==
  [totalResources |-> SqlNull, totalDownloads |-> SqlNull,
   averageRating |-> SqlNull, activeUsers |-> SqlNull]

\* updates that name no column
NoUpdates ==
  [title |-> Absent, description |-> Absent, subject |-> Absent,
   semester |-> Absent, uploadedById |-> 0, downloadCount |-> <<>>,
   isActive |-> <<>>]

Idle ==
  [pc |-> "idle", route |-> "none", caller |-> 0, id |-> 0, bodyUserId |-> 0,
   rowCount |-> 0, stats |-> NoStats, seen |-> 0, status |-> 0,
   updates |-> NoUpdates, todo |-> <<>>, tagId |-> 0, row |-> <<>>,
   tagNames |-> <<>>, options |-> NoOptions, list |-> <<>>, totals |-> NoTotals,
   contributors |-> <<>>, timeframe |-> Absent, trending |-> <<>>]

Free(p) == procs[p].pc \in {"idle", "done"}

\* res.status(code).json(...): the handler has answered
Respond(p, route, caller, id, code) ==
  [Idle EXCEPT !.pc = "done", !.route = route, !.caller = caller, !.id = id,
               !.status = code]

Bodies(scores, reviews, userIds, resourceIds) ==
  [rating : {<<>>} \cup {<<s>> : s \in scores}, review : reviews,
   userId : userIds, resourceId : resourceIds]

(* ------------------------------ actions ------------------------------- *)

\* the clock advances
Tick ==
  /\ now < MaxClock
  /\ now' = now + 1
  /\ UNCHANGED <<resources, ratings, procs, incrementCalls, favorites, tags, resourceTags>>

\* POST /api/resources up to storage.createResource: the file check, the
\* parse, then the INSERT; without tags the handler answers 201 at once
CreateResource(p, caller, file, body) ==
  LET data == ResourceData(body, file, caller)
      id == Len(resources) + 1
  IN
  /\ Free(p)
  /\ IF file = 0 \/ ~ResourceParseOk(data)
     THEN \* "No file uploaded", or a ZodError: 400
          /\ procs' = [procs EXCEPT ![p] = Respond(p, "createResource", caller, 0, 400)]
          /\ UNCHANGED <<resources, incrementCalls>>
     ELSE /\ resources' = Append(resources, NewResource(id, data, now))
          /\ incrementCalls' = incrementCalls @@ (id :> 0)
          /\ procs' = [procs EXCEPT ![p] =
                IF body.tags = <<>>
                THEN [Respond(p, "createResource", caller, id, 201) EXCEPT
                        !.bodyUserId = body.uploadedById, !.tagNames = body.tags,
                        !.row = <<NewResource(id, data, now)>>]
                ELSE [Idle EXCEPT !.pc = "tagLookup", !.route = "createResource",
                                  !.caller = caller, !.id = id, !.todo = body.tags,
                                  !.tagNames = body.tags,
                                  !.bodyUserId = body.uploadedById,
                                  !.row = <<NewResource(id, data, now)>>]]
  /\ UNCHANGED <<ratings, now, favorites, tags, resourceTags>>

\* the tag loop of POST /api/resources: storage.getTagByName(tagName)
CreateTagLookup(p) ==
  /\ procs[p].pc = "tagLookup"
  /\ procs' = [procs EXCEPT ![p] =
        IF getTagByName(Head(procs[p].todo)) = {}
        THEN [@ EXCEPT !.pc = "tagInsert"]
        ELSE [@ EXCEPT !.pc = "tagLink",
                       !.tagId = CHOOSE i \in getTagByName(Head(procs[p].todo)) : TRUE]]
  /\ UNCHANGED <<resources, ratings, favorites, tags, resourceTags, now, incrementCalls>>

\* the tag loop: storage.createTag; a violation of the unique tags.name is
\* caught by the loop's own handler, which gives up the remaining tags
CreateTagInsert(p) ==
  /\ procs[p].pc = "tagInsert"
  /\ IF UniqueViolated(tags, Head(procs[p].todo))
     THEN /\ procs' = [procs EXCEPT ![p].pc = "done", ![p].status = 201,
                                    ![p].todo = <<>>]
          /\ UNCHANGED tags
     ELSE /\ tags' = Append(tags, Head(procs[p].todo))
          /\ procs' = [procs EXCEPT ![p].pc = "tagLink", ![p].tagId = Len(tags) + 1]
  /\ UNCHANGED <<resources, ratings, favorites, resourceTags, now, incrementCalls>>

\* the tag loop: storage.addTagToResource, then the next tag or the answer
CreateTagLink(p) ==
  /\ procs[p].pc = "tagLink"
  /\ resourceTags' = addTagToResource(resourceTags, procs[p].id, procs[p].tagId)
  /\ procs' = [procs EXCEPT ![p] =
        IF Tail(procs[p].todo) = <<>>
        THEN [@ EXCEPT !.pc = "done", !.status = 201, !.todo = <<>>, !.tagId = 0]
        ELSE [@ EXCEPT !.pc = "tagLookup", !.todo = Tail(@), !.tagId = 0]]
  /\ UNCHANGED <<resources, ratings, favorites, tags, now, incrementCalls>>

\* PUT /api/resources/:id up to storage.getResource and the owner check
PutGet(p, caller, id, body) ==
  /\ Free(p)
  /\ procs' = [procs EXCEPT ![p] =
        IF getResource(id) = {}
        THEN Respond(p, "updateResource", caller, id, 404)
        ELSE IF ~IsOwner(CHOOSE r \in getResource(id) : TRUE, caller)
        THEN Respond(p, "updateResource", caller, id, 403)
        ELSE [Idle EXCEPT !.pc = "put", !.route = "updateResource",
                          !.caller = caller, !.id = id, !.updates = Updates(body)]]
  /\ UNCHANGED <<resources, ratings, favorites, tags, resourceTags, now, incrementCalls>>

\* storage.updateResource: one UPDATE, then the row as the answer
PutUpdate(p) ==
  /\ procs[p].pc = "put"
  /\ IF NotNullViolated(procs[p].updates)
     THEN \* the UPDATE throws, the handler answers 500
          /\ UNCHANGED resources
          /\ procs' = [procs EXCEPT ![p].pc = "done", ![p].status = 500]
     ELSE /\ resources' = updateResource(resources, procs[p].id, procs[p].updates, now)
          /\ procs' = [procs EXCEPT ![p].pc = "done", ![p].status = 200,
                 ![p].row = <<SetColumns(CHOOSE r \in getResource(procs[p].id) : TRUE,
                                         procs[p].updates, now)>>]
  /\ UNCHANGED <<ratings, favorites, tags, resourceTags, now, incrementCalls>>

\* DELETE /api/resources/:id up to storage.getResource and the owner check
DeleteGet(p, caller, id) ==
  /\ Free(p)
  /\ procs' = [procs EXCEPT ![p] =
        IF getResource(id) = {}
        THEN Respond(p, "deleteResource", caller, id, 404)
        ELSE IF ~IsOwner(CHOOSE r \in getResource(id) : TRUE, caller)
        THEN Respond(p, "deleteResource", caller, id, 403)
        ELSE [Idle EXCEPT !.pc = "softDelete", !.route = "deleteResource",
                          !.caller = caller, !.id = id,
                          !.row = <<CHOOSE r \in getResource(id) : TRUE>>]]
  /\ UNCHANGED <<resources, ratings, favorites, tags, resourceTags, now, incrementCalls>>

\* storage.deleteResource: one UPDATE; rowCount > 0 is answered 200
DeleteUpdate(p) ==
  /\ procs[p].pc = "softDelete"
  /\ resources' = deleteResource(resources, procs[p].id, now)
  /\ procs' = [procs EXCEPT ![p].pc = "done",
                            ![p].rowCount = Cardinality(getResource(procs[p].id)),
                            ![p].status = IF getResource(procs[p].id) # {} THEN 200 ELSE 500]
  /\ UNCHANGED <<ratings, favorites, tags, resourceTags, now, incrementCalls>>

\* GET /api/resources: storage.getResources, one SELECT
ListResources(p, o) ==
  /\ Free(p)
  /\ \E l \in getResources(resources, o) :
       procs' = [procs EXCEPT ![p] =
          [Respond(p, "getResources", 0, 0, 200) EXCEPT !.options = o, !.list = l]]
  /\ UNCHANGED <<resources, ratings, favorites, tags, resourceTags, now, incrementCalls>>

\* GET /api/resources/:id: storage.getResourceWithDetails, one query by id
\* (the uploader, ratings and tags it joins in are left out of the answer)
GetDetails(p, id) ==
  /\ Free(p)
  /\ procs' = [procs EXCEPT ![p] =
        IF getResource(id) = {}
        THEN Respond(p, "getResourceWithDetails", 0, id, 404)
        ELSE [Respond(p, "getResourceWithDetails", 0, id, 200) EXCEPT
                !.row = <<CHOOSE r \in getResource(id) : TRUE>>]]
  /\ UNCHANGED <<resources, ratings, favorites, tags, resourceTags, now, incrementCalls>>

\* GET /api/users/me/favorites: storage.getUserFavorites, one SELECT
GetFavorites(p, caller) ==
  /\ Free(p)
  /\ \E l \in Orders(getUserFavorites(resources, favorites, caller)) :
       procs' = [procs EXCEPT ![p] =
          [Respond(p, "getUserFavorites", caller, 0, 200) EXCEPT !.list = l]]
  /\ UNCHANGED <<resources, ratings, favorites, tags, resourceTags, now, incrementCalls>>

\* POST /api/resources/:id/favorites: storage.addFavorite, one INSERT ... ON
\* CONFLICT DO NOTHING; every failure is answered 500
PostFavorite(p, caller, id) ==
  /\ Free(p)
  /\ IF getResource(id) = {}
     THEN \* foreign key favorites.resource_id -> resources.id violated
          /\ procs' = [procs EXCEPT ![p] = Respond(p, "addFavorite", caller, id, 500)]
          /\ UNCHANGED favorites
     ELSE /\ favorites' = addFavorite(favorites, caller, id)
          /\ procs' = [procs EXCEPT ![p] =
                [Respond(p, "addFavorite", caller, id, 200) EXCEPT
                   !.rowCount = IF FavoriteTargets(favorites, caller, id) = {} THEN 1 ELSE 0]]
  /\ UNCHANGED <<resources, ratings, tags, resourceTags, now, incrementCalls>>

\* DELETE /api/resources/:id/favorites: storage.removeFavorite, one DELETE
DeleteFavorite(p, caller, id) ==
  LET gone == FavoriteTargets(favorites, caller, id) IN
  /\ Free(p)
  /\ favorites' = Remaining(favorites, gone)
  /\ procs' = [procs EXCEPT ![p] =
        [Respond(p, "removeFavorite", caller, id, IF gone # {} THEN 200 ELSE 404)
           EXCEPT !.rowCount = Cardinality(gone)]]
  /\ UNCHANGED <<resources, ratings, tags, resourceTags, now, incrementCalls>>

\* POST /api/resources/:id/tags up to storage.getResource and the owner
\* check; tagName is taken from the body as it is
AddTagGet(p, caller, id, tagName) ==
  /\ Free(p)
  /\ procs' = [procs EXCEPT ![p] =
        IF getResource(id) = {}
        THEN Respond(p, "addTag", caller, id, 404)
        ELSE IF ~IsOwner(CHOOSE r \in getResource(id) : TRUE, caller)
        THEN Respond(p, "addTag", caller, id, 403)
        ELSE [Idle EXCEPT !.pc = "addLookup", !.route = "addTag", !.caller = caller,
                          !.id = id, !.todo = <<tagName>>, !.tagNames = <<tagName>>]]
  /\ UNCHANGED <<resources, ratings, favorites, tags, resourceTags, now, incrementCalls>>

\* storage.getOrCreateTag, first statement: getTagByName
AddTagLookup(p) ==
  /\ procs[p].pc = "addLookup"
  /\ procs' = [procs EXCEPT ![p] =
        IF getTagByName(Head(procs[p].todo)) = {}
        THEN [@ EXCEPT !.pc = "addInsert"]
        ELSE [@ EXCEPT !.pc = "addLink",
                       !.tagId = CHOOSE i \in getTagByName(Head(procs[p].todo)) : TRUE]]
  /\ UNCHANGED <<resources, ratings, favorites, tags, resourceTags, now, incrementCalls>>

\* storage.getOrCreateTag, second statement: createTag; a name that is
\* missing (NOT NULL) or taken meanwhile (UNIQUE) makes the INSERT throw,
\* and the handler answers 500
AddTagInsert(p) ==
  /\ procs[p].pc = "addInsert"
  /\ IF Head(procs[p].todo) = Absent \/ UniqueViolated(tags, Head(procs[p].todo))
     THEN /\ procs' = [procs EXCEPT ![p].pc = "done", ![p].status = 500]
          /\ UNCHANGED tags
     ELSE /\ tags' = Append(tags, Head(procs[p].todo))
          /\ procs' = [procs EXCEPT ![p].pc = "addLink", ![p].tagId = Len(tags) + 1]
  /\ UNCHANGED <<resources, ratings, favorites, resourceTags, now, incrementCalls>>

\* storage.addTagToResource, then the tag as the answer
AddTagLink(p) ==
  /\ procs[p].pc = "addLink"
  /\ resourceTags' = addTagToResource(resourceTags, procs[p].id, procs[p].tagId)
  /\ procs' = [procs EXCEPT ![p].pc = "done", ![p].status = 200]
  /\ UNCHANGED <<resources, ratings, favorites, tags, now, incrementCalls>>

\* DELETE /api/resources/:id/tags/:tagId up to storage.getResource and the
\* owner check
RemoveTagGet(p, caller, id, tagId) ==
  /\ Free(p)
  /\ procs' = [procs EXCEPT ![p] =
        IF getResource(id) = {}
        THEN Respond(p, "removeTag", caller, id, 404)
        ELSE IF ~IsOwner(CHOOSE r \in getResource(id) : TRUE, caller)
        THEN Respond(p, "removeTag", caller, id, 403)
        ELSE [Idle EXCEPT !.pc = "untag", !.route = "removeTag", !.caller = caller,
                          !.id = id, !.tagId = tagId]]
  /\ UNCHANGED <<resources, ratings, favorites, tags, resourceTags, now, incrementCalls>>

\* storage.removeTagFromResource: one DELETE whose row count nobody reads;
\* the answer is "Tag removed from resource" either way
RemoveTag(p) ==
  LET gone == TagTargets(resourceTags, procs[p].id, procs[p].tagId) IN
  /\ procs[p].pc = "untag"
  /\ resourceTags' = Remaining(resourceTags, gone)
  /\ procs' = [procs EXCEPT ![p].pc = "done", ![p].status = 200,
                            ![p].rowCount = Cardinality(gone)]
  /\ UNCHANGED <<resources, ratings, favorites, tags, now, incrementCalls>>

\* GET /api/stats, getDashboardStats up to its first SELECT
DashboardSelect(p) ==
  /\ Free(p)
  /\ procs' = [procs EXCEPT ![p] =
        [Idle EXCEPT !.pc = "activeUsers", !.route = "getDashboardStats",
                     !.totals = SelectResourceStats(ActiveRows(resources))]]
  /\ UNCHANGED <<resources, ratings, favorites, tags, resourceTags, now, incrementCalls>>

\* getDashboardStats, second SELECT, then the answer
DashboardUsers(p) ==
  /\ procs[p].pc = "activeUsers"
  /\ procs' = [procs EXCEPT ![p].pc = "done", ![p].status = 200,
        ![p].totals = StatsAnswer([procs[p].totals EXCEPT
                         !.activeUsers = SelectActiveUsers(ActiveRows(resources))])]
  /\ UNCHANGED <<resources, ratings, favorites, tags, resourceTags, now, incrementCalls>>

\* GET /api/users/me/stats: getUserStats, one SELECT, then the answer (which
\* has no activeUsers field)
UserStats(p, caller) ==
  /\ Free(p)
  /\ procs' = [procs EXCEPT ![p] =
        [Respond(p, "getUserStats", caller, 0, 200) EXCEPT
           !.totals = [StatsAnswer(SelectResourceStats(ActiveRowsOf(resources, caller)))
                         EXCEPT !.activeUsers = SqlNull]]]
  /\ UNCHANGED <<resources, ratings, favorites, tags, resourceTags, now, incrementCalls>>

\* storage.getTopContributors: one SELECT, then the filter and the map
TopContributors(p) ==
  /\ Free(p)
  /\ \E l \in getTopContributors(resources) :
       procs' = [procs EXCEPT ![p] =
          [Respond(p, "getTopContributors", 0, 0, 200) EXCEPT !.contributors = l]]
  /\ UNCHANGED <<resources, ratings, favorites, tags, resourceTags, now, incrementCalls>>

\* storage.getTrendingResources: one SELECT, then the map
TrendingResources(p, timeframe) ==
  /\ Free(p)
  /\ \E l \in getTrendingResources(resources, timeframe, now) :
       procs' = [procs EXCEPT ![p] =
          [Respond(p, "getTrendingResources", 0, 0, 200) EXCEPT
             !.timeframe = timeframe, !.trending = l]]
  /\ UNCHANGED <<resources, ratings, favorites, tags, resourceTags, now, incrementCalls>>

\* POST /api/resources/:id/ratings up to the first statement of
\* createOrUpdateRating: parse, then the upsert
PostRating(p, caller, id, body) ==
  LET data == RatingData(body, id, caller) IN
  /\ Free(p)
  /\ IF ~ParseOk(data)
     THEN \* ZodError, caught: 500
          /\ procs' = [procs EXCEPT ![p] =
                [Respond(p, "rate", caller, id, 500) EXCEPT !.bodyUserId = body.userId]]
          /\ UNCHANGED ratings
     ELSE IF getResource(data.resourceId) = {}
     THEN \* foreign key ratings.resource_id -> resources.id violated: 500
          /\ procs' = [procs EXCEPT ![p] =
                [Respond(p, "rate", caller, id, 500) EXCEPT !.bodyUserId = body.userId]]
          /\ UNCHANGED ratings
     ELSE /\ ratings' = Upsert(ratings, data)
          /\ procs' = [procs EXCEPT ![p] =
                [Idle EXCEPT !.pc = "stats", !.route = "rate", !.caller = caller,
                             !.id = data.resourceId, !.bodyUserId = body.userId,
                             !.rowCount = 1]]
  /\ UNCHANGED <<resources, now, incrementCalls, favorites, tags, resourceTags>>

\* DELETE /api/resources/:id/ratings up to the DELETE of deleteRating
DeleteRating(p, caller, id) ==
  LET gone == DeleteTargets(ratings, id, caller) IN
  /\ Free(p)
  /\ ratings' = ratings \ gone
  /\ procs' = [procs EXCEPT ![p] =
        IF Cardinality(gone) > 0
        THEN [Idle EXCEPT !.pc = "stats", !.route = "deleteRating", !.caller = caller,
                          !.id = id, !.rowCount = Cardinality(gone)]
        ELSE \* success = false: 404 "Rating not found"
             Respond(p, "deleteRating", caller, id, 404)]
  /\ UNCHANGED <<resources, now, incrementCalls, favorites, tags, resourceTags>>

\* updateResourceRatingStats, first statement: the aggregate SELECT
StatsSelect(p) ==
  /\ procs[p].pc = "stats"
  /\ procs' = [procs EXCEPT ![p].pc = "update",
                            ![p].stats = SelectStats(ratings, procs[p].id)]
  /\ UNCHANGED <<resources, ratings, now, incrementCalls, favorites, tags, resourceTags>>

\* updateResourceRatingStats, second statement: the UPDATE of the resource,
\* then the handler's answer
StatsUpdate(p) ==
  /\ procs[p].pc = "update"
  /\ IF NumericOverflow(ToDecimal(procs[p].stats))
     THEN \* the UPDATE throws, the handler answers 500
          /\ UNCHANGED resources
          /\ procs' = [procs EXCEPT ![p].pc = "done", ![p].stats = NoStats,
                                    ![p].status = 500]
     ELSE /\ resources' = SetRatingStats(resources, procs[p].id, procs[p].stats, now)
          /\ procs' = [procs EXCEPT ![p].pc = "done", ![p].stats = NoStats,
                                    ![p].status = 200]
  /\ UNCHANGED <<ratings, now, incrementCalls, favorites, tags, resourceTags>>

\* downloads started and not yet counted
PendingDownloads == Cardinality({p \in Procs : procs[p].pc = "increment"})

RECURSIVE TotalDownloads(_)
TotalDownloads(i) ==
  IF i = 0 THEN 0 ELSE resources[i].downloadCount + TotalDownloads(i - 1)

\* POST /api/resources/:id/download up to storage.getResource
DownloadGet(p, id) ==
  /\ Free(p)
  /\ TotalDownloads(Len(resources)) + PendingDownloads < MaxDownloads
  /\ procs' = [procs EXCEPT ![p] =
        IF getResource(id) = {}
        THEN Respond(p, "download", 0, id, 404)
        ELSE [Idle EXCEPT !.pc = "increment", !.route = "download", !.id = id,
                          !.seen = (CHOOSE r \in getResource(id) : TRUE).downloadCount]]
  /\ UNCHANGED <<resources, ratings, now, incrementCalls, favorites, tags, resourceTags>>

\* storage.incrementDownloadCount: one UPDATE, then the answer
DownloadIncrement(p) ==
  /\ procs[p].pc = "increment"
  /\ resources' =
       [i \in DOMAIN resources |->
          IF i \in IncrementTargets(resources, procs[p].id)
          THEN [resources[i] EXCEPT
                  !.downloadCount = NewDownloadCount(resources[i], procs[p].seen),
                  !.updatedAt = now]
          ELSE resources[i]]
  /\ incrementCalls' = [incrementCalls EXCEPT ![procs[p].id] = @ + 1]
  /\ procs' = [procs EXCEPT ![p].pc = "done", ![p].status = 200]
  /\ UNCHANGED <<ratings, now, favorites, tags, resourceTags>>

(* --------------------------- specifications --------------------------- *)

\* an upload of lecture notes without tags
Notes ==
  [title |-> "notes", description |-> Absent, subject |-> "math",
   semester |-> "S1", uploadedById |-> 0, tags |-> <<>>]

\* the server after start-up on an empty database
Init ==
  /\ resources = <<>>
  /\ ratings = {}
  /\ favorites = <<>>
  /\ tags = <<>>
  /\ resourceTags = <<>>
  /\ procs = [p \in Procs |-> Idle]
  /\ now = 0
  /\ incrementCalls = <<>>

\* scores a client may send: in range, and one beyond the decimal(3,2) range
SentScores == {5, 10}

\* concurrent rating requests, one path id beyond the resources there are
Next ==
  \/ \E p \in Procs : Len(resources) < MaxResources /\ CreateResource(p, 1, 1, Notes)
  \/ \E p \in Procs, c \in Users, id \in 1..(MaxResources + 1),
        b \in Bodies(SentScores, {Absent}, {0}, {0}) : PostRating(p, c, id, b)
  \/ \E p \in Procs, c \in Users, id \in 1..(MaxResources + 1) : DeleteRating(p, c, id)
  \/ \E p \in Procs : StatsSelect(p)
  \/ \E p \in Procs : StatsUpdate(p)

Spec == Init /\ [][Next]_vars


\* one request at a time: a single handler slot
SeqProc == 1

\* a database holding one resource
RatingInit ==
  /\ resources = <<NewResource(1, ResourceData(Notes, 1, 1), 0)>>
  /\ ratings = {}
  /\ favorites = <<>>
  /\ tags = <<>>
  /\ resourceTags = <<>>
  /\ procs = [p \in Procs |-> Idle]
  /\ now = 0
  /\ incrementCalls = <<0>>

\* rating requests one after the other on one resource and on an unknown
\* id: every score in range
RatingNext ==
  \/ \E c \in Users, id \in 1..2,
        b \in Bodies(Stars, {Absent}, {0}, {0}) : PostRating(SeqProc, c, id, b)
  \/ \E c \in Users, id \in 1..2 : DeleteRating(SeqProc, c, id)
  \/ StatsSelect(SeqProc)
  \/ StatsUpdate(SeqProc)

RatingSpec == RatingInit /\ [][RatingNext]_vars

\* rating requests one after the other, with and without a review
UpsertNext ==
  \/ \E c \in Users, id \in 1..2,
        b \in Bodies({4, 5}, {Absent, Null, "great"}, {0}, {0}) : PostRating(SeqProc, c, id, b)
  \/ \E c \in Users, id \in 1..2 : DeleteRating(SeqProc, c, id)
  \/ StatsSelect(SeqProc)
  \/ StatsUpdate(SeqProc)

UpsertSpec == RatingInit /\ [][UpsertNext]_vars

\* rating requests one after the other whose bodies carry a userId and a
\* resourceId of their own
CallerNext ==
  \/ \E c \in Users, id \in 1..2,
        b \in Bodies({4, 5}, {Absent}, 0..NumUsers, 0..2) : PostRating(SeqProc, c, id, b)
  \/ \E c \in Users, id \in 1..2 : DeleteRating(SeqProc, c, id)
  \/ StatsSelect(SeqProc)
  \/ StatsUpdate(SeqProc)

CallerSpec == RatingInit /\ [][CallerNext]_vars

\* a database holding two resources, uploaded by users 1 and 2
DownloadInit ==
  /\ resources = <<NewResource(1, ResourceData(Notes, 1, 1), 0), NewResource(2, ResourceData(Notes, 2, 2), 0)>>
  /\ ratings = {}
  /\ favorites = <<>>
  /\ tags = <<>>
  /\ resourceTags = <<>>
  /\ procs = [p \in Procs |-> Idle]
  /\ now = 0
  /\ incrementCalls = <<0, 0>>

\* concurrent download requests on two resources and on an unknown id
DownloadNext ==
  \/ Tick
  \/ \E p \in Procs, id \in 1..3 : DownloadGet(p, id)
  \/ \E p \in Procs : DownloadIncrement(p)

DownloadSpec == DownloadInit /\ [][DownloadNext]_vars

\* update and delete requests one after the other, by the uploader and by
\* others, on two resources and on an unknown id
OwnerNext ==
  \/ Tick
  \/ \E c \in Users, id \in 1..3,
        b \in UpdateBodies({Absent, "notes-v2"}, {Absent}, {Absent}, {Absent},
                           {0}, {<<>>}, {<<>>}) : PutGet(SeqProc, c, id, b)
  \/ PutUpdate(SeqProc)
  \/ \E c \in Users, id \in 1..3 : DeleteGet(SeqProc, c, id)
  \/ DeleteUpdate(SeqProc)

OwnerSpec == DownloadInit /\ [][OwnerNext]_vars

\* the uploader of the resource of RatingInit, and somebody else
Uploader == 1
Stranger == 2

\* update bodies that name any of the four editable columns, with or
\* without the columns an update must not touch
EditBodies ==
  UpdateBodies({Absent, Null, "notes-v2"}, {Absent, "revised"}, {Absent, "physics"},
               {Absent, "S2"}, {0}, {<<>>}, {<<>>})
  \cup UpdateBodies({Absent, Null, "notes-v2"}, {Absent, "revised"}, {Absent, "physics"},
                    {Absent, "S2"}, {Stranger}, {<<7>>}, {<<FALSE>>, <<TRUE>>})

\* update and delete requests one after the other on one resource
UpdateNext ==
  \/ Tick
  \/ \E c \in {Uploader, Stranger}, id \in 1..2, b \in EditBodies : PutGet(SeqProc, c, id, b)
  \/ PutUpdate(SeqProc)
  \/ \E c \in {Uploader, Stranger}, id \in 1..2 : DeleteGet(SeqProc, c, id)
  \/ DeleteUpdate(SeqProc)

UpdateSpec == RatingInit /\ [][UpdateNext]_vars

\* uploads one after the other next to a resource that is there already:
\* with and without a file, a title, a description, a semester, a tag, and
\* an uploadedById of the body's own
CreateNext ==
  \/ Tick
  \/ \E c \in Users, file \in 0..1,
        b \in Uploads({Absent, "notes"}, {Absent, "intro"}, {"math"}, {Absent, "S1"},
                      {0, Stranger}, {<<>>, <<"exam">>}) :
        Len(resources) <= MaxResources /\ CreateResource(SeqProc, c, file, b)
  \/ CreateTagLookup(SeqProc)
  \/ CreateTagInsert(SeqProc)
  \/ CreateTagLink(SeqProc)

CreateSpec == RatingInit /\ [][CreateNext]_vars

\* favourites, soft deletes and the three read operations one after the
\* other on two resources and on an unknown id
FavoriteNext ==
  \/ \E c \in {Uploader, Stranger}, id \in 1..3 : DeleteGet(SeqProc, c, id)
  \/ DeleteUpdate(SeqProc)
  \/ \E c \in {Uploader, Stranger}, id \in 1..3 : PostFavorite(SeqProc, c, id)
  \/ \E c \in {Uploader, Stranger}, id \in 1..3 : DeleteFavorite(SeqProc, c, id)
  \/ \E c \in {Uploader, Stranger} : GetFavorites(SeqProc, c)
  \/ \E o \in Options({Absent, "math"}, {Absent}, {0}, {0, Uploader},
                        {"newest", "oldest", "rating", "downloads"}) :
        ListResources(SeqProc, o)
  \/ \E id \in 1..3 : GetDetails(SeqProc, id)

FavoriteSpec == DownloadInit /\ [][FavoriteNext]_vars

\* a resource as it is after uploads, downloads and at most one rating
Stored(id, subject, semester, uploader, t, downloads, score) ==
  [NewResource(id, [title |-> "notes", description |-> Null, subject |-> subject,
                    semester |-> semester, file |-> id, uploadedById |-> uploader], t)
     EXCEPT !.downloadCount = downloads,
            !.averageRating = Scale * score,
            !.ratingCount = IF score = 0 THEN 0 ELSE 1]

\* a database holding three resources, the first two uploaded at the same
\* instant, each downloaded once or never and rated 5 by one user or not
\* at all
CatalogueInit ==
  \E d \in [1..3 -> 0..1], sc \in [1..3 -> {0, MaxStars}] :
    /\ resources = <<Stored(1, "math", "S1", Uploader, 0, d[1], sc[1]),
                     Stored(2, "physics", "S1", Stranger, 0, d[2], sc[2]),
                     Stored(3, "math", Null, Stranger, 1, d[3], sc[3])>>
    /\ ratings = {[resourceId |-> i, userId |-> Stranger, rating |-> sc[i],
                   review |-> Null] : i \in {j \in 1..3 : sc[j] # 0}}
    /\ favorites = <<>>
    /\ tags = <<>>
    /\ resourceTags = <<>>
    /\ procs = [p \in Procs |-> Idle]
    /\ now = 1
    /\ incrementCalls = <<d[1], d[2], d[3]>>

\* the queries of GET /api/resources: each filter left out or named, every
\* sort mode and one the switch does not know
Queries ==
  Options({Absent, "math"}, {Absent, "S1"}, {0, 450}, {0, Stranger},
          {"newest", "oldest", "rating", "downloads", "relevance"})

\* listings and soft deletes one after the other
SortNext ==
  \/ \E c \in {Uploader, Stranger}, id \in 1..3 : DeleteGet(SeqProc, c, id)
  \/ DeleteUpdate(SeqProc)
  \/ \E o \in Queries : ListResources(SeqProc, o)

SortSpec == CatalogueInit /\ [][SortNext]_vars

\* statistics and soft deletes one after the other
StatsNext ==
  \/ \E c \in {Uploader, Stranger}, id \in 1..3 : DeleteGet(SeqProc, c, id)
  \/ DeleteUpdate(SeqProc)
  \/ DashboardSelect(SeqProc)
  \/ DashboardUsers(SeqProc)
  \/ \E c \in Users : UserStats(SeqProc, c)
  \/ TopContributors(SeqProc)

StatsSpec == CatalogueInit /\ [][StatsNext]_vars

\* an upload that lacks its title
Untitled == [Notes EXCEPT !.title = Absent]

\* a database holding one resource of the uploader, tagged "exam"
TaggedInit ==
  /\ resources = <<NewResource(1, ResourceData(Notes, 1, Uploader), 0)>>
  /\ ratings = {}
  /\ favorites = <<>>
  /\ tags = <<"exam">>
  /\ resourceTags = <<[resourceId |-> 1, tagId |-> 1]>>
  /\ procs = [p \in Procs |-> Idle]
  /\ now = 0
  /\ incrementCalls = <<0>>

\* the callers and the path ids of EndpointSpec: the uploader and somebody
\* else, the resource there is and an id beyond it
Callers == {Uploader, Stranger}
PathIds == 1..2

\* requests to the endpoints that write, one after the other, on one
\* tagged resource: well-formed and malformed, on a known and an unknown
\* id, by the uploader and by somebody else
EndpointNext ==
  \/ \E c \in Callers, file \in 0..1, b \in {Notes, Untitled} :
        (file = 0 \/ b = Untitled) /\ CreateResource(SeqProc, c, file, b)
  \/ \E c \in Callers, id \in PathIds,
        b \in UpdateBodies({Absent, "notes-v2"}, {Absent}, {Absent}, {Absent},
                           {0}, {<<>>}, {<<>>}) : PutGet(SeqProc, c, id, b)
  \/ PutUpdate(SeqProc)
  \/ \E c \in Callers, id \in PathIds : DeleteGet(SeqProc, c, id)
  \/ DeleteUpdate(SeqProc)
  \/ \E c \in Callers, id \in PathIds,
        b \in Bodies({MaxStars}, {Absent}, {0}, {0}) : PostRating(SeqProc, c, id, b)
  \/ \E c \in Callers, id \in PathIds : DeleteRating(SeqProc, c, id)
  \/ StatsSelect(SeqProc)
  \/ StatsUpdate(SeqProc)
  \/ \E c \in Callers, id \in PathIds : PostFavorite(SeqProc, c, id)
  \/ \E c \in Callers, id \in PathIds : DeleteFavorite(SeqProc, c, id)
  \/ \E c \in Callers, id \in PathIds, t \in 1..2 : RemoveTagGet(SeqProc, c, id, t)
  \/ RemoveTag(SeqProc)

EndpointSpec == TaggedInit /\ [][EndpointNext]_vars

\* an upload of lecture notes with these tags
NotesTagged(names) == [Notes EXCEPT !.tags = names]

\* uploads with tags and tag additions by the uploader, interleaving, next
\* to one resource tagged "exam"
RaceNext ==
  \/ \E p \in Procs, names \in {<<>>, <<"exam">>, <<"lab">>, <<"lab", "exam">>} :
        Len(resources) <= MaxResources + 1
        /\ CreateResource(p, Uploader, 1, NotesTagged(names))
  \/ \E p \in Procs : CreateTagLookup(p)
  \/ \E p \in Procs : CreateTagInsert(p)
  \/ \E p \in Procs : CreateTagLink(p)
  \/ \E p \in Procs, name \in {"exam", "lab"} : AddTagGet(p, Uploader, 1, name)
  \/ \E p \in Procs : AddTagLookup(p)
  \/ \E p \in Procs : AddTagInsert(p)
  \/ \E p \in Procs : AddTagLink(p)

RaceSpec == TaggedInit /\ [][RaceNext]_vars

\* favourite and tag additions and removals, interleaving, on one tagged
\* resource
PairNext ==
  \/ \E p \in Procs, c \in Callers : PostFavorite(p, c, 1)
  \/ \E p \in Procs, c \in Callers : DeleteFavorite(p, c, 1)
  \/ \E p \in Procs, name \in {"exam", "lab"} : AddTagGet(p, Uploader, 1, name)
  \/ \E p \in Procs : AddTagLookup(p)
  \/ \E p \in Procs : AddTagInsert(p)
  \/ \E p \in Procs : AddTagLink(p)
  \/ \E p \in Procs, t \in 1..2 : RemoveTagGet(p, Uploader, 1, t)
  \/ \E p \in Procs : RemoveTag(p)

PairSpec == TaggedInit /\ [][PairNext]_vars

\* an update body that names, next to a new title, the columns an update
\* must not touch: a download count of zero and the active flag
Reset ==
  [title |-> "notes-v2", description |-> Absent, subject |-> Absent,
   semester |-> Absent, uploadedById |-> 0, downloadCount |-> <<0>>,
   isActive |-> <<TRUE>>]

\* rating bodies that carry a score
Scored == {b \in Bodies({4, 5}, {Absent}, {0}, {0}) : b.rating # <<>>}

\* every operation on a resource, one after the other: upload, update,
\* soft delete, download, rating, favorite, tag, and the listing
LifeNext ==
  \/ Tick
  \/ Len(resources) <= MaxResources /\ CreateResource(SeqProc, Uploader, 1, Notes)
  \/ PutGet(SeqProc, Uploader, 1, Reset)
  \/ PutUpdate(SeqProc)
  \/ DeleteGet(SeqProc, Uploader, 1)
  \/ DeleteUpdate(SeqProc)
  \/ DownloadGet(SeqProc, 1)
  \/ DownloadIncrement(SeqProc)
  \/ \E b \in Scored : PostRating(SeqProc, Stranger, 1, b)
  \/ DeleteRating(SeqProc, Stranger, 1)
  \/ StatsSelect(SeqProc)
  \/ StatsUpdate(SeqProc)
  \/ PostFavorite(SeqProc, Stranger, 1)
  \/ DeleteFavorite(SeqProc, Stranger, 1)
  \/ AddTagGet(SeqProc, Uploader, 1, "lab")
  \/ AddTagLookup(SeqProc)
  \/ AddTagInsert(SeqProc)
  \/ AddTagLink(SeqProc)
  \/ RemoveTagGet(SeqProc, Uploader, 1, 1)
  \/ RemoveTag(SeqProc)
  \/ ListResources(SeqProc, NoOptions)

LifeSpec == TaggedInit /\ [][LifeNext]_vars

\* tag additions and removals one after the other, by the uploader and by
\* somebody else, on two resources and on an unknown id
TagNext ==
  \/ \E c \in Callers, id \in 1..3, name \in {"exam", "lab"} : AddTagGet(SeqProc, c, id, name)
  \/ AddTagLookup(SeqProc)
  \/ AddTagInsert(SeqProc)
  \/ AddTagLink(SeqProc)
  \/ \E c \in Callers, id \in 1..3, t \in 1..2 : RemoveTagGet(SeqProc, c, id, t)
  \/ RemoveTag(SeqProc)

TagSpec == DownloadInit /\ [][TagNext]_vars

\* the queries of a client that pages through a listing: a limit of one
\* or two rows or none given, an offset of up to two rows
Pages ==
  {[o EXCEPT !.limit = l, !.offset = k] :
     o \in Options({Absent, "math"}, {Absent}, {0}, {0}, {"newest", "downloads"}),
     l \in {1, 2, DefaultLimit}, k \in 0..2}

\* the three resources of CatalogueInit, none downloaded or rated yet
ShelfInit ==
  /\ CatalogueInit
  /\ \A i \in DOMAIN resources :
       resources[i].downloadCount = 0 /\ resources[i].ratingCount = 0

\* listings of pages, overlapping, on a store that nothing writes to
PageNext ==
  \E p \in Procs, o \in Pages : ListResources(p, o)

PageSpec == ShelfInit /\ [][PageNext]_vars

\* a database on day 40 holding three resources, uploaded on days 0, 20
\* and 35, each downloaded never, once or 251 times, and each rated 3 or 5
\* by the two other users or not at all
TrendInit ==
  \E d \in [1..3 -> {0, 1, 251}], sc \in [1..3 -> {0, 3, MaxStars}] :
    /\ resources =
         [i \in 1..3 |->
            [Stored(i, "math", "S1", Uploader, <<0, 20, 35>>[i], d[i], sc[i])
               EXCEPT !.ratingCount = IF sc[i] = 0 THEN 0 ELSE 2]]
    /\ ratings = {[resourceId |-> i, userId |-> u, rating |-> sc[i], review |-> Null] :
                    i \in {j \in 1..3 : sc[j] # 0}, u \in {2, 3}}
    /\ favorites = <<>>
    /\ tags = <<>>
    /\ resourceTags = <<>>
    /\ procs = [p \in Procs |-> Idle]
    /\ now = 40
    /\ incrementCalls = <<d[1], d[2], d[3]>>

\* trending listings and soft deletes one after the other
TrendNext ==
  \/ \E id \in 1..3 : DeleteGet(SeqProc, Uploader, id)
  \/ DeleteUpdate(SeqProc)
  \/ \E tf \in {Absent, "week", "month", "all"} : TrendingResources(SeqProc, tf)

TrendSpec == TrendInit /\ [][TrendNext]_vars

(* ------------------------------- claims ------------------------------- *)

\* the row of resources with this id
ResourceOf(id) == CHOOSE r \in getResource(id) : TRUE

\* averageRating is exactly sum/count of the rows, 0 without rows, and
\* ratingCount their number
ExactAggregates(r, rows) ==
  LET s == SelectStats(rows, r.id) IN
  /\ r.ratingCount = s.count
  /\ r.averageRating * s.count = Scale * s.sum
  /\ s.count = 0 => r.averageRating = 0

Abs(n) == IF n < 0 THEN -n ELSE n

\* averageRating is sum/count of the rows to within half a hundredth
RoundedAggregates(r, rows) ==
  LET s == SelectStats(rows, r.id) IN
  /\ r.ratingCount = s.count
  /\ 2 * Abs(r.averageRating * s.count - Scale * s.sum) <= s.count
  /\ s.count = 0 => r.averageRating = 0

\* C1: in every reachable state every resource's ratingCount is the number
\* of its Rating rows and its averageRating their mean (0 without rows).
C1_AggregatesMatchRatings ==
  \A i \in DOMAIN resources : ExactAggregates(resources[i], ratings)

\* C2: the rating write and the aggregate recomputation are one atomic
\* step: a step that changes the Rating rows of a resource leaves that
\* resource's averageRating and ratingCount describing the new rows.
C2_WriteCarriesAggregates ==
  [][\A i \in DOMAIN resources :
       RowsFor(ratings', resources[i].id) # RowsFor(ratings, resources[i].id)
         => RoundedAggregates(resources'[i], ratings')]_vars

\* C3: once every interleaved rating request on a resource has completed,
\* the resource's averageRating and ratingCount are the mean and the count
\* of the Rating rows that exist (scores in range).
C3_SettledAggregates ==
  (\A p \in Procs : Free(p)) =>
    \A i \in DOMAIN resources :
      (\A r \in RowsFor(ratings, resources[i].id) : r.rating \in Stars)
        => ExactAggregates(resources[i], ratings)

\* C4: Ratings holds at most one row per (resourceId, userId), and an upsert
\* for a pair that already has a row keeps the number of rows and leaves
\* the row holding the score and the review of that second call.
C4_UpsertReplaces ==
  [][\A c \in Users, id \in 1..2, b \in Bodies({4, 5}, {Absent, Null, "great"}, {0}, {0}) :
       (PostRating(SeqProc, c, id, b) /\ procs'[SeqProc].pc = "stats")
         => /\ \A r1, r2 \in ratings' :
                 (r1.resourceId = r2.resourceId /\ r1.userId = r2.userId) => r1 = r2
            /\ DeleteTargets(ratings, id, c) # {}
                 => /\ Cardinality(ratings') = Cardinality(ratings)
                    /\ DeleteTargets(ratings', id, c) =
                         {[resourceId |-> id, userId |-> c, rating |-> b.rating[1],
                           review |-> IF b.review = Absent THEN Null ELSE b.review]}]_vars

\* C5 as stated: after a rating upsert or a row-removing rating delete has
\* completed without interleaving, averageRating is the exact mean of the
\* resource's ratings and ratingCount their number.
C5_ExactMean ==
  \A p \in Procs :
    (procs[p].pc = "done" /\ procs[p].route \in {"rate", "deleteRating"}
       /\ procs[p].status = 200)
      => ExactAggregates(ResourceOf(procs[p].id), ratings)

\* C5 as amended: after a rating upsert or a row-removing rating delete has
\* completed without interleaving, averageRating is the mean of the
\* resource's ratings rounded to two decimals, and ratingCount their number.
C5_RoundedMean ==
  \A p \in Procs :
    (procs[p].pc = "done" /\ procs[p].route \in {"rate", "deleteRating"}
       /\ procs[p].status = 200)
      => RoundedAggregates(ResourceOf(procs[p].id), ratings)

\* three ratings summing to 14: the mean 4.666... is stored as 4.67
C5_RoundedMeanReached ==
  \E p \in Procs :
    /\ procs[p].pc = "done" /\ procs[p].route = "rate" /\ procs[p].status = 200
    /\ ResourceOf(procs[p].id).averageRating = 467
    /\ ResourceOf(procs[p].id).ratingCount = 3
    /\ SumRatings(RowsFor(ratings, procs[p].id)) = 14

\* C6: every stored Rating row has a score in 1..5.
C6_StoredScoresInRange ==
  \A r \in ratings : r.rating \in Stars

\* C7: a rating delete that removed the row reports success, and one that
\* found no row reports not found.
C7_DeleteReportsRemoval ==
  \A p \in Procs :
    (procs[p].pc = "done" /\ procs[p].route = "deleteRating")
      => /\ procs[p].rowCount > 0 => procs[p].status = 200
         /\ procs[p].rowCount = 0 => procs[p].status = 404

\* C8: every Rating row that a step creates, changes or removes belongs to
\* the authenticated caller of the request taking the step, whatever ids
\* the request body carries.
C8_OnlyOwnRating ==
  [][\A r \in (ratings' \ ratings) \cup (ratings \ ratings') :
       \E p \in Procs : procs'[p] # procs[p] /\ procs'[p].caller = r.userId]_vars

\* a request whose body names another user has stored the caller's rating
\* beside that other user's own rating, which is as that user gave it
C8_ForeignBodyStoredAsCaller ==
  \E p \in Procs :
    /\ procs[p].pc = "done" /\ procs[p].route = "rate" /\ procs[p].status = 200
    /\ procs[p].bodyUserId \notin {0, procs[p].caller}
    /\ \E r \in ratings :
         r.userId = procs[p].caller /\ r.resourceId = procs[p].id /\ r.rating = 5
    /\ \E r \in ratings :
         r.userId = procs[p].bodyUserId /\ r.resourceId = procs[p].id /\ r.rating = 4

\* C9: when no download request on a resource is in flight, its
\* downloadCount is its initial value 0 plus the number of
\* incrementDownloadCount calls made on it.
C9_NoLostDownloads ==
  \A i \in DOMAIN resources :
    (\A p \in Procs : ~(procs[p].pc = "increment" /\ procs[p].id = resources[i].id))
      => resources[i].downloadCount = incrementCalls[resources[i].id]

\* two download requests that both read the resource at count 0 have both
\* completed, and the count is 2
C9_OverlappingDownloadsCounted ==
  \E p, q \in Procs :
    /\ p # q
    /\ procs[p].pc = "done" /\ procs[p].route = "download" /\ procs[p].status = 200
    /\ procs[q].pc = "done" /\ procs[q].route = "download" /\ procs[q].status = 200
    /\ procs[p].id = procs[q].id
    /\ procs[p].seen = 0 /\ procs[q].seen = 0
    /\ ResourceOf(procs[p].id).downloadCount = 2

\* C10: a download request for an unknown id answers 404 and changes no
\* resource; for an existing id its increment raises that resource's
\* downloadCount by one and changes no other resource.
C10_DownloadEffect ==
  [][\A p \in Procs :
       (procs'[p] # procs[p] /\ procs'[p].route = "download")
         => IF procs[p].pc = "increment"
            THEN /\ procs'[p].status = 200
                 /\ \A i \in DOMAIN resources :
                      IF resources[i].id = procs[p].id
                      THEN resources'[i].downloadCount = resources[i].downloadCount + 1
                      ELSE resources'[i] = resources[i]
            ELSE /\ resources' = resources
                 /\ getResource(procs'[p].id) = {}
                      <=> (procs'[p].pc = "done" /\ procs'[p].status = 404)
                 /\ getResource(procs'[p].id) # {} <=> procs'[p].pc = "increment"]_vars

\* an unknown id was answered 404 after the clock moved, with every
\* updatedAt still 0, while a download of resource 1 had been counted
C10_UnknownIdAnswered ==
  \E p, q \in Procs :
    /\ procs[p].pc = "done" /\ procs[p].route = "download" /\ procs[p].status = 404
    /\ getResource(procs[p].id) = {}
    /\ procs[q].pc = "done" /\ procs[q].route = "download" /\ procs[q].status = 200
    /\ ResourceOf(procs[q].id).downloadCount = 1
    /\ now > ResourceOf(procs[q].id).updatedAt

\* a handler slot takes an update or a delete request in this step
TakesOwnerRequest(p) ==
  /\ Free(p)
  /\ procs'[p] # procs[p]
  /\ procs'[p].route \in {"updateResource", "deleteResource"}

\* C11: an update or delete request whose id matches no resource is
\* answered 404, one by a caller who is not the uploader 403, and in both
\* cases no field of any resource changes.
C11_RefusedLeavesResources ==
  [][\A p \in Procs :
       TakesOwnerRequest(p) =>
         /\ getResource(procs'[p].id) = {} =>
               procs'[p].status = 404 /\ resources' = resources
         /\ (getResource(procs'[p].id) # {}
              /\ ResourceOf(procs'[p].id).uploadedById # procs'[p].caller) =>
               procs'[p].status = 403 /\ resources' = resources
         /\ procs'[p].status \in {403, 404} => resources' = resources]_vars

\* a delete by someone else than the uploader has been answered 403 and an
\* active resource is still there
C11_StrangerRefused ==
  \E p \in Procs :
    /\ procs[p].route = "deleteResource"
    /\ procs[p].status = 403
    /\ getResource(procs[p].id) # {}
    /\ ResourceOf(procs[p].id).uploadedById # procs[p].caller
    /\ ResourceOf(procs[p].id).isActive

\* C13: the uploader deleting an already inactive resource is answered
\* success, and the resource stays inactive with its title, description,
\* subject, semester, uploader, downloadCount, averageRating and
\* ratingCount as they were.
C13_DeleteIdempotent ==
  [][\A p \in Procs :
       (procs[p].pc = "softDelete" /\ procs'[p].pc = "done"
        /\ ~ResourceOf(procs[p].id).isActive) =>
         /\ procs'[p].status = 200
         /\ resources' =
              [i \in DOMAIN resources |->
                 IF resources[i].id = procs[p].id
                 THEN [resources[i] EXCEPT !.updatedAt = resources'[i].updatedAt]
                 ELSE resources[i]]]_vars

\* a delete of a resource that was inactive when the handler read it has
\* been answered success
C13_DeletedTwice ==
  \E p \in Procs :
    /\ procs[p].route = "deleteResource"
    /\ procs[p].status = 200
    /\ ~procs[p].row[1].isActive

\* the row of resources' with this id
ResourceAfter(id) ==
  CHOOSE r \in {resources'[i] : i \in {j \in DOMAIN resources' : resources'[j].id = id}} : TRUE

\* C19: a successful update by the uploader sets title, description,
\* subject and semester to the values the request supplies and keeps those
\* it leaves out; besides updatedAt no other column of the resource (id,
\* uploader, file, downloadCount, averageRating, ratingCount, isActive,
\* createdAt) and no other resource changes.
C19_UpdateFrame ==
  [][\A p \in Procs :
       (procs[p].pc = "put" /\ procs'[p].pc = "done" /\ procs'[p].status = 200) =>
         LET u == procs[p].updates
             old == ResourceOf(procs[p].id)
             new == ResourceAfter(procs[p].id)
         IN
         /\ \A i \in DOMAIN resources :
               resources[i].id # procs[p].id => resources'[i] = resources[i]
         /\ new = [old EXCEPT !.title = new.title, !.description = new.description,
                              !.subject = new.subject, !.semester = new.semester,
                              !.updatedAt = new.updatedAt]
         /\ new.title = IF u.title = Absent THEN old.title ELSE u.title
         /\ new.description = IF u.description = Absent THEN old.description ELSE u.description
         /\ new.subject = IF u.subject = Absent THEN old.subject ELSE u.subject
         /\ new.semester = IF u.semester = Absent THEN old.semester ELSE u.semester]_vars

\* an update that named a title and a description and left out subject and
\* semester has succeeded on a resource that was soft-deleted before
C19_PartialUpdateDone ==
  \E p \in Procs :
    /\ procs[p].route = "updateResource"
    /\ procs[p].status = 200
    /\ procs[p].updates.title = "notes-v2"
    /\ procs[p].updates.description = "revised"
    /\ procs[p].updates.subject = Absent
    /\ procs[p].updates.semester = Absent
    /\ ResourceOf(procs[p].id).title = "notes-v2"
    /\ ResourceOf(procs[p].id).subject = "math"
    /\ ~ResourceOf(procs[p].id).isActive

\* C20: creating a resource returns a row whose id differs from every
\* stored id, with downloadCount 0, averageRating 0, ratingCount 0,
\* isActive true and the authenticated caller as uploader whatever the body
\* carries; the row is stored and no existing resource changes.
C20_CreateDefaults ==
  [][\A p \in Procs :
       (Free(p) /\ procs'[p] # procs[p] /\ procs'[p].route = "createResource"
        /\ procs'[p].row # <<>>) =>
         LET r == procs'[p].row[1] IN
         /\ \A i \in DOMAIN resources : resources[i].id # r.id
         /\ r.downloadCount = 0 /\ r.averageRating = 0 /\ r.ratingCount = 0
         /\ r.isActive
         /\ r.uploadedById = procs'[p].caller
         /\ resources' = Append(resources, r)]_vars

\* an upload whose body named another user as uploader has been stored
\* under the caller, next to the resource that was there
C20_CreatedAsCaller ==
  \E p \in Procs :
    /\ procs[p].route = "createResource"
    /\ procs[p].status = 201
    /\ procs[p].caller = Uploader
    /\ procs[p].bodyUserId = Stranger
    /\ Len(resources) = 2
    /\ resources[2].uploadedById = Uploader
    /\ resources[2].id = procs[p].id

\* C12: a soft-deleted resource is in no answer of getResources, whatever
\* the filter and sort, and in no answer of getUserFavorites, while
\* getResourceWithDetails on its id still returns it and answers not-found
\* only for an id that matches no row.
C12_DeletedHidden ==
  [][\A p \in Procs :
       (Free(p) /\ procs'[p] # procs[p]) =>
         /\ procs'[p].route \in {"getResources", "getUserFavorites"} =>
               \A k \in DOMAIN procs'[p].list :
                 /\ getResource(procs'[p].list[k]) # {}
                 /\ ResourceOf(procs'[p].list[k]).isActive
         /\ procs'[p].route = "getResourceWithDetails" =>
               /\ procs'[p].status = 404 <=> getResource(procs'[p].id) = {}
               /\ getResource(procs'[p].id) # {} =>
                     /\ procs'[p].status = 200
                     /\ procs'[p].row = <<ResourceOf(procs'[p].id)>>]_vars

\* getResourceWithDetails has returned a soft-deleted resource that is
\* still somebody's favourite
C12_DeletedStillReadable ==
  \E p \in Procs :
    /\ procs[p].route = "getResourceWithDetails"
    /\ procs[p].status = 200
    /\ ~procs[p].row[1].isActive
    /\ \E i \in DOMAIN favorites : favorites[i].resourceId = procs[p].id

\* the active resources that pass every filter the query names
Wanted(o) ==
  {resources[i].id : i \in {j \in DOMAIN resources :
     /\ resources[j].isActive
     /\ o.subject # Absent => resources[j].subject = o.subject
     /\ o.semester # Absent => resources[j].semester = o.semester
     /\ resources[j].averageRating >= o.minRating
     /\ o.userId # 0 => resources[j].uploadedById = o.userId}}

\* row a comes strictly before row b in the chosen sort mode
Before(a, b, sortBy) ==
  CASE sortBy = "oldest" -> a.createdAt < b.createdAt
    [] sortBy = "rating" -> a.averageRating > b.averageRating
    [] sortBy = "downloads" -> a.downloadCount > b.downloadCount
    [] OTHER -> a.createdAt > b.createdAt

\* the answer lists exactly the wanted resources, in the order of the mode
ListedInOrder(l, o) ==
  /\ {l[k] : k \in DOMAIN l} = Wanted(o)
  /\ Len(l) = Cardinality(Wanted(o))
  /\ \A j, k \in DOMAIN l :
        j < k => ~Before(ResourceOf(l[k]), ResourceOf(l[j]), o.sortBy)

\* C14: getResources returns exactly the active resources that satisfy
\* every supplied filter, ordered by the chosen mode, and resources with
\* equal sort key come in creation order.
C14_ListedSortedStable ==
  [][\A p \in Procs :
       (Free(p) /\ procs'[p] # procs[p] /\ procs'[p].route = "getResources") =>
         /\ ListedInOrder(procs'[p].list, procs'[p].options)
         /\ \A j, k \in DOMAIN procs'[p].list :
               (j < k /\ ~Before(ResourceOf(procs'[p].list[j]),
                                 ResourceOf(procs'[p].list[k]),
                                 procs'[p].options.sortBy)) =>
                 procs'[p].list[j] < procs'[p].list[k]]_vars

\* the active resources now, of everybody (userId 0) or of one uploader
ActiveNow(userId) ==
  {resources[i] : i \in {j \in DOMAIN resources :
     resources[j].isActive /\ (userId # 0 => resources[j].uploadedById = userId)}}

\* the value is a number or a numeral (not null) and equals n
Is(v, n) == v.kind # "null" /\ v.den > 0 /\ v.num = n * v.den

\* the answer describes the rows: their number, the sum of their
\* downloadCounts and the mean of their averageRatings, all 0 without rows
Describes(t, rows) ==
  /\ Is(t.totalResources, Cardinality(rows))
  /\ Is(t.totalDownloads, SumOf(rows, "downloadCount"))
  /\ t.averageRating.kind # "null" /\ t.averageRating.den > 0
  /\ IF rows = {} THEN t.averageRating.num = 0
     ELSE t.averageRating.num * Cardinality(rows) =
            t.averageRating.den * SumOf(rows, "averageRating")

C16_ContributorsListed ==
  [][\A p \in Procs :
       (Free(p) /\ procs'[p] # procs[p] /\ procs'[p].route = "getTopContributors") =>
         LET l == procs'[p].contributors IN
         /\ {l[k].id : k \in DOMAIN l} = {u \in Users : ActiveNow(u) # {}}
         /\ Len(l) = Cardinality({u \in Users : ActiveNow(u) # {}})
         /\ \A k \in DOMAIN l :
               /\ Is(l[k].resourceCount, Cardinality(ActiveNow(l[k].id)))
               /\ Is(l[k].totalDownloads, SumOf(ActiveNow(l[k].id), "downloadCount"))
               /\ 2 * Abs(l[k].averageRating.num * Cardinality(ActiveNow(l[k].id))
                          - l[k].averageRating.den * SumOf(ActiveNow(l[k].id), "averageRating"))
                    <= l[k].averageRating.den * Cardinality(ActiveNow(l[k].id))
         /\ \A j, k \in DOMAIN l : j < k => ~RanksBefore(l[k], l[j])]_vars

\* C17: removing a Favorite, a Rating or a Resource-Tag association that is
\* not there raises no error, leaves the tables unchanged and is answered
\* not-found, unlike a removal that removed a row.
C17_NothingRemovedReported ==
  [][\A p \in Procs :
       /\ (Free(p) /\ procs'[p] # procs[p] /\ procs'[p].route = "removeFavorite"
           /\ FavoriteTargets(favorites, procs'[p].caller, procs'[p].id) = {}) =>
             procs'[p].status = 404
             /\ UNCHANGED <<resources, ratings, favorites, tags, resourceTags>>
       /\ (Free(p) /\ procs'[p] # procs[p] /\ procs'[p].route = "deleteRating"
           /\ DeleteTargets(ratings, procs'[p].id, procs'[p].caller) = {}) =>
             procs'[p].status = 404
             /\ UNCHANGED <<resources, ratings, favorites, tags, resourceTags>>
       /\ (procs[p].pc = "untag" /\ procs'[p].pc = "done"
           /\ TagTargets(resourceTags, procs[p].id, procs[p].tagId) = {}) =>
             procs'[p].status = 404
             /\ UNCHANGED <<resources, ratings, favorites, tags, resourceTags>>]_vars

\* the routes whose path names a resource, and those only its uploader may use
ResourceRoutes ==
  {"updateResource", "deleteResource", "removeTag", "rate", "addFavorite"}
OwnerRoutes == {"updateResource", "deleteResource", "removeTag"}

\* C18: a request with a malformed or missing input is answered 400, one
\* on a resource id that does not exist 404, a mutation by somebody else
\* than the uploader 403; a rating or favorite request with an invalid body
\* or for an unknown resource id is not answered 500.
C18_FailuresMapped ==
  [][\A p \in Procs :
       (Free(p) /\ procs'[p] # procs[p]) =>
         /\ (procs'[p].route \in ResourceRoutes /\ getResource(procs'[p].id) = {}) =>
               procs'[p].status = 404
         /\ (procs'[p].route \in OwnerRoutes /\ getResource(procs'[p].id) # {}
              /\ ResourceOf(procs'[p].id).uploadedById # procs'[p].caller) =>
               procs'[p].status = 403
         /\ (procs'[p].route = "createResource" /\ procs'[p].row = <<>>) =>
               procs'[p].status = 400
         /\ procs'[p].route \in {"rate", "addFavorite"} => procs'[p].status # 500]_vars

\* the ids of the rows of a tags table with this name
TagIds(rows, name) == {i \in DOMAIN rows : rows[i] = name}

\* the edges of a resource_tags table from this resource
EdgesOf(rows, id) == {i \in DOMAIN rows : rows[i].resourceId = id}

\* C21: an upload without tags leaves the Tag and ResourceTag tables as
\* they were; an upload with tag names leaves, when it has answered, for
\* each name exactly one Tag row and exactly one edge from the new resource
\* to it, an existing Tag row being reused, and it adds no edge to any
\* other resource.
C21_UploadTags ==
  [][\A p \in Procs :
       /\ (procs'[p].route = "createResource" /\ procs'[p].status = 201
           /\ procs'[p] # procs[p]) =>
             \A k \in DOMAIN procs'[p].tagNames :
               /\ Cardinality(TagIds(tags', procs'[p].tagNames[k])) = 1
               /\ TagIds(tags, procs'[p].tagNames[k]) \subseteq
                    TagIds(tags', procs'[p].tagNames[k])
               /\ Cardinality({i \in EdgesOf(resourceTags', procs'[p].id) :
                     resourceTags'[i].tagId \in TagIds(tags', procs'[p].tagNames[k])}) = 1
       /\ (procs'[p].route = "createResource" /\ procs'[p] # procs[p]
           /\ procs'[p].tagNames = <<>>) =>
             tags' = tags /\ resourceTags' = resourceTags
       /\ (procs'[p].route = "createResource" /\ procs'[p] # procs[p]) =>
             \A i \in DOMAIN resourceTags' :
               resourceTags'[i].resourceId # procs'[p].id =>
                 i \in DOMAIN resourceTags /\ resourceTags[i] = resourceTags'[i]]_vars

\* C23: no two Tag rows share a name, and a get-or-create of a tag never
\* runs into a conflict: the insert that follows a lookup which found
\* nothing succeeds, also when two of them interleave.
C23_GetOrCreateNoConflict ==
  [][/\ \A i, j \in DOMAIN tags' : tags'[i] = tags'[j] => i = j
     /\ \A p \in Procs :
          /\ procs[p].pc = "addInsert" => procs'[p].pc \in {"addInsert", "addLink"}
          /\ procs[p].pc = "tagInsert" => procs'[p].pc \in {"tagInsert", "tagLink"}]_vars

\* no row of the table occurs twice
NoDuplicates(rows) == \A i, j \in DOMAIN rows : rows[i] = rows[j] => i = j

\* C22: the Favorites table never holds two rows for one (userId,
\* resourceId) and the ResourceTags table never two for one (resourceId,
\* tagId); adding a favorite or a tag edge that is there already leaves the
\* table as it was and is answered without error.
C22_PairsUnique ==
  [][/\ NoDuplicates(favorites') /\ NoDuplicates(resourceTags')
     /\ \A p \in Procs :
          /\ (Free(p) /\ procs'[p] # procs[p] /\ procs'[p].route = "addFavorite"
              /\ FavoriteTargets(favorites, procs'[p].caller, procs'[p].id) # {}) =>
                favorites' = favorites /\ procs'[p].status = 200
          /\ (procs[p].pc = "addLink" /\ procs'[p].pc = "done"
              /\ TagTargets(resourceTags, procs[p].id, procs[p].tagId) # {}) =>
                resourceTags' = resourceTags /\ procs'[p].status = 200]_vars

\* a favorite that was there already has been added again and answered
\* 200, and so has a tag edge
C22_AddedTwice ==
  /\ \E p \in Procs :
       /\ procs[p].route = "addFavorite" /\ procs[p].status = 200
       /\ procs[p].rowCount = 0
       /\ FavoriteTargets(favorites, procs[p].caller, procs[p].id) # {}
  /\ \E p \in Procs :
       /\ procs[p].route = "addTag" /\ procs[p].status = 200
       /\ procs[p].tagId = 1
       /\ Len(resourceTags) = 1

\* C24: downloadCount never decreases, whatever the operation (upload,
\* update, soft delete, download, rating, favorite, tag); it changes only
\* in the increment of a download, and then by exactly one.
C24_DownloadCountMonotone ==
  [][\A i \in DOMAIN resources :
       /\ i \in DOMAIN resources'
       /\ resources'[i].downloadCount >= resources[i].downloadCount
       /\ resources'[i].downloadCount # resources[i].downloadCount =>
            /\ resources'[i].downloadCount = resources[i].downloadCount + 1
            /\ \E p \in Procs :
                 /\ procs[p].pc = "increment" /\ procs'[p].pc = "done"
                 /\ procs[p].id = resources[i].id]_vars

\* a downloaded resource has been given a new title by an update that
\* carried a download count of zero, and has kept its count
C24_CountSurvivesUpdate ==
  /\ Len(resources) > 1
  /\ resources[1].downloadCount = 2
  /\ resources[1].title = "notes-v2"
  /\ ~resources[1].isActive
  /\ resources[1].ratingCount = 1

\* C27: no resource row is ever removed and isActive never goes from
\* false to true: once a resource is soft-deleted, no update, delete,
\* download, rating, favorite or tag operation makes it active again, and
\* no listing of getResources shows it.
C27_SoftDeleteFinal ==
  [][/\ \A i \in DOMAIN resources :
          /\ i \in DOMAIN resources'
          /\ resources'[i].id = resources[i].id
          /\ ~resources[i].isActive => ~resources'[i].isActive
     /\ \A p \in Procs :
          (Free(p) /\ procs'[p] # procs[p] /\ procs'[p].route = "getResources") =>
            \A k \in DOMAIN procs'[p].list :
              \A r \in getResource(procs'[p].list[k]) : r.isActive]_vars

\* a soft-deleted resource has since been updated with a body that sets
\* isActive, downloaded and rated, and the listing leaves it out
C27_DeletedStaysDeleted ==
  /\ Len(resources) > 1
  /\ ~resources[1].isActive
  /\ resources[1].title = "notes-v2"
  /\ resources[1].updatedAt = MaxClock /\ resources[1].createdAt = 0
  /\ procs[SeqProc].route = "getResources"
  /\ procs[SeqProc].list = <<2>>

\* C29: the download and the rating endpoints do not look at isActive: on
\* a soft-deleted resource a download is still counted, by one, and a rating
\* is still stored and the aggregates of the resource recomputed from it.
C29_DeletedStillCounted ==
  [][\A p \in Procs, i \in DOMAIN resources :
       ~resources[i].isActive =>
         /\ (Free(p) /\ procs'[p] # procs[p] /\ procs'[p].route = "download"
             /\ procs'[p].id = resources[i].id) => procs'[p].pc = "increment"
         /\ (procs[p].pc = "increment" /\ procs'[p].pc = "done"
             /\ procs[p].id = resources[i].id) =>
               /\ resources'[i].downloadCount = resources[i].downloadCount + 1
               /\ procs'[p].status = 200
         /\ (Free(p) /\ procs'[p] # procs[p] /\ procs'[p].route = "rate"
             /\ procs'[p].id = resources[i].id) =>
               /\ procs'[p].pc = "stats"
               /\ \E r \in ratings' :
                    r.resourceId = resources[i].id /\ r.userId = procs'[p].caller
         /\ (procs[p].pc = "update" /\ procs'[p].pc = "done" /\ procs[p].route = "rate"
             /\ procs[p].id = resources[i].id) =>
               /\ procs'[p].status = 200
               /\ resources'[i].ratingCount = Cardinality(RowsFor(ratings, resources[i].id))
               /\ resources'[i].ratingCount > 0
               /\ RoundedAggregates(resources'[i], ratings)]_vars

\* a rating of a soft-deleted resource has been answered 200 and its
\* aggregates show the score; the resource counts downloads all the same
C29_RatedAfterDelete ==
  /\ ~resources[1].isActive
  /\ procs[SeqProc].route = "rate" /\ procs[SeqProc].status = 200
  /\ procs[SeqProc].id = 1
  /\ resources[1].ratingCount = 1 /\ resources[1].averageRating = 4 * Scale
  /\ resources[1].downloadCount = MaxDownloads

\* C28: a rating upsert or delete on a resource changes, outside the
\* Ratings table, only that resource's averageRating, ratingCount and
\* updatedAt: its other columns, every other resource, and the favorite
\* and tag tables stay as they were.
C28_RatingFrame ==
  [][\A p \in Procs :
       (procs'[p] # procs[p] /\ procs'[p].route \in {"rate", "deleteRating"}) =>
         /\ favorites' = favorites /\ tags' = tags /\ resourceTags' = resourceTags
         /\ DOMAIN resources' = DOMAIN resources
         /\ \A i \in DOMAIN resources :
              IF resources[i].id = procs'[p].id
              THEN resources'[i] =
                     [resources[i] EXCEPT !.averageRating = resources'[i].averageRating,
                                          !.ratingCount = resources'[i].ratingCount,
                                          !.updatedAt = resources'[i].updatedAt]
              ELSE resources'[i] = resources[i]]_vars

\* a rating has been stored and the aggregates of its resource written at
\* a later time than anything else, next to a second resource, a favorite
\* and two tags
C28_RatedBesideOthers ==
  /\ Len(resources) = 2
  /\ procs[SeqProc].route = "rate" /\ procs[SeqProc].status = 200
  /\ resources[1].ratingCount = 1 /\ resources[1].averageRating = 5 * Scale
  /\ resources[1].updatedAt = MaxClock
  /\ resources[2].ratingCount = 0 /\ resources[2].updatedAt = 0
  /\ resources[1].downloadCount = 1
  /\ Len(favorites) = 1 /\ Len(resourceTags) = 2

\* the uploader of the resource with this id, 0 when there is none
UploaderOf(id) ==
  IF \E i \in DOMAIN resources : resources[i].id = id
  THEN resources[CHOOSE i \in DOMAIN resources : resources[i].id = id].uploadedById
  ELSE 0

\* C30: a tag is added to or removed from a resource through the tag
\* endpoints only for the uploader: an unknown id is answered 404 and any
\* other caller 403, and neither changes the Tag or the ResourceTag table;
\* the uploader's request goes on to the tag statements.
C30_TagsOwnerOnly ==
  [][/\ \A p \in Procs :
          (Free(p) /\ procs'[p] # procs[p] /\ procs'[p].route \in {"addTag", "removeTag"}) =>
            /\ tags' = tags /\ resourceTags' = resourceTags
            /\ UploaderOf(procs'[p].id) = 0 =>
                 procs'[p].pc = "done" /\ procs'[p].status = 404
            /\ UploaderOf(procs'[p].id) \notin {0, procs'[p].caller} =>
                 procs'[p].pc = "done" /\ procs'[p].status = 403
            /\ UploaderOf(procs'[p].id) = procs'[p].caller =>
                 procs'[p].pc \in {"addLookup", "untag"}
     /\ (tags' # tags \/ resourceTags' # resourceTags) =>
          \E p \in Procs :
            /\ procs[p].route \in {"addTag", "removeTag"}
            /\ procs[p].pc \notin {"idle", "done"}
            /\ procs[p].caller = UploaderOf(procs[p].id)]_vars

\* somebody else's request to tag the uploader's resource has been refused
\* with 403, and the tables hold the uploader's own tag and nothing else
C30_StrangerTagRefused ==
  /\ procs[SeqProc].route = "addTag" /\ procs[SeqProc].status = 403
  /\ procs[SeqProc].caller = Stranger /\ procs[SeqProc].id = 1
  /\ tags = <<"lab">>
  /\ resourceTags = <<[resourceId |-> 1, tagId |-> 1]>>

\* the ids of both answers, the first page's first
Both(l, m) == [k \in 1..(Len(l) + Len(m)) |-> IF k <= Len(l) THEN l[k] ELSE m[k - Len(l)]]

\* C25: on a store that does not change, the page with limit L and offset
\* 0 and the page of the same query that starts at offset L and runs to
\* the end hold, together, every matching resource exactly once: none is
\* repeated and none is skipped, equal sort keys or not.
C25_PagesPartition ==
  \A p, q \in Procs :
    (/\ procs[p].route = "getResources" /\ procs[q].route = "getResources"
     /\ procs[p].options.offset = 0
     /\ procs[q].options = [procs[p].options EXCEPT !.limit = DefaultLimit,
                                                    !.offset = procs[p].options.limit]) =>
      LET l == Both(procs[p].list, procs[q].list) IN
      /\ \A j, k \in DOMAIN l : l[j] = l[k] => j = k
      /\ {l[k] : k \in DOMAIN l} = Wanted(procs[p].options)

\* C26: getTrendingResources answers only active resources created inside
\* the window asked for, in descending order of downloadCount * 0.4 +
\* averageRating * ratingCount * 0.6, and the trendingScore of each is
\* min(100, floor(that score)), an integer from 0 to 100.
C26_TrendingScored ==
  [][\A p \in Procs :
       (Free(p) /\ procs'[p] # procs[p] /\ procs'[p].route = "getTrendingResources") =>
         LET l == procs'[p].trending
             since == DateFilter(procs'[p].timeframe, now)
         IN /\ \A k \in DOMAIN l :
                 /\ ResourceOf(l[k].id).isActive
                 /\ ResourceOf(l[k].id).createdAt >= since
                 /\ l[k].trendingScore \in 0..100
                 /\ l[k].trendingScore =
                      IF RawScore(ResourceOf(l[k].id)) >= 100 * 1000 THEN 100
                      ELSE RawScore(ResourceOf(l[k].id)) \div 1000
            /\ \A j, k \in DOMAIN l :
                 j < k => RawScore(ResourceOf(l[j].id)) >= RawScore(ResourceOf(l[k].id))]_vars

====
